---- MODULE Spec2Model ----
(***************************************************************************)
(* A model of table_fu (src/table_fu/__init__.py): the TableFu table, its  *)
(* Row views and the operations sort, transform, add_rows, filter,         *)
(* facet_by, transpose, delete_row, values, total and the Row accessors.   *)
(*                                                                         *)
(* Python objects are modelled with their identity:                        *)
(*   lists   the heap of list objects holding cells (a raw row of a table, *)
(*           or the cells list a Row object owns); a list's id is its      *)
(*           index, and a list is only ever changed in place by transform  *)
(*           and by Row.__setitem__;                                       *)
(*   opts    the heap of options dictionaries (TableFu.options);           *)
(*   tables  the TableFu objects; a table's id is its index;               *)
(*   row     the Row object the caller holds (<<>> before the first        *)
(*           table[i]);                                                    *)
(*   calls   the log of the calls made, each with its arguments and with   *)
(*           what it returned or raised.                                   *)
(* Positions (row_num, index) are counted from 1.  The rows given to the   *)
(* constructor and to add_rows are as wide as the header.                  *)
(* A string is the tuple of its characters, here digits: <<1, 0>> is "10"  *)
(* and <<>> is "".  Python compares strings lexicographically.             *)
(***************************************************************************)
EXTENDS Naturals, Sequences, FiniteSets, TLC

VARIABLES tables, lists, opts, row, calls

vars == <<tables, lists, opts, row, calls>>

(* ------------------------------ bounds -------------------------------- *)

\* the most body rows of the table given to the constructor
MaxRows == 2
\* the most calls made in one behaviour of Spec, SpecSort and SpecTranspose
MaxOps == 2
\* the most calls made in one behaviour of SpecRow
MaxRowOps == 3

(* ------------------------------ strings ------------------------------- *)

E == <<>>
S9 == <<9>>
S10 == <<1, 0>>
ColA == <<1>>
ColB == <<2>>
Nope == <<3>>

\* the cell values of the input data
Vals == {E, S9, S10}
\* the header rows given to the constructor
Headers == {<<ColA, ColB>>}
\* the column names the calls are made with
Names == {ColA, ColB, Nope}

\* Python's < on two str objects: lexicographic on the characters
RECURSIVE StrLt(_, _)
StrLt(a, b) ==
    IF a = <<>> THEN b # <<>>
    ELSE IF b = <<>> THEN FALSE
    ELSE IF a[1] # b[1] THEN a[1] < b[1]
    ELSE StrLt(Tail(a), Tail(b))

\* the number a string of digits denotes (what a numeric comparison would use)
RECURSIVE StrNum(_)
StrNum(a) == IF a = <<>> THEN 0 ELSE 10 * StrNum(SubSeq(a, 1, Len(a) - 1)) + a[Len(a)]

\* x in seq
In(x, s) == \E i \in 1..Len(s) : s[i] = x

\* list.index(x): the first position holding x (1-based here)
Index(s, x) == CHOOSE i \in 1..Len(s) : s[i] = x /\ \A j \in 1..(i - 1) : s[j] # x

(* --------------------------- results of a call ------------------------ *)

Ok(v) == [ok |-> TRUE, err |-> "", val |-> v]
Raise(e) == [ok |-> FALSE, err |-> e, val |-> <<>>]

\* the first error among a sequence of results, or the sequence of their values
Collect(rs) ==
    IF \E i \in 1..Len(rs) : ~rs[i].ok
    THEN Raise(rs[CHOOSE i \in 1..Len(rs) : ~rs[i].ok /\ \A j \in 1..(i - 1) : rs[j].ok].err)
    ELSE Ok([i \in 1..Len(rs) |-> rs[i].val])

(* ------------------------------ elements ------------------------------ *)

\* an element of TableFu.table: a raw list, or (in a table that filter built)
\* a Row object, which owns a cells list and refers to the table it was read from
ListEl(id) == [kind |-> "list", ref |-> id, tab |-> 0]
RowEl(id, t) == [kind |-> "Row", ref |-> id, tab |-> t]

\* TableFu._get_columns
Columns(tb) == IF tb._columns # <<>> THEN tb._columns ELSE tb.default_columns

\* Row.get(column_name) on cells read against table tb: the Datum's value
RowGet(tb, cells, column_name) ==
    IF In(column_name, tb.default_columns)
    THEN IF Index(tb.default_columns, column_name) <= Len(cells)
         THEN Ok(cells[Index(tb.default_columns, column_name)])
         ELSE Raise("IndexError")
    ELSE Raise("KeyError")

\* list(row) on a Row object: Row.__iter__ -> Row.values -> Row.data, the cells
\* named by the active columns of the Row's table
RowValues(tabs, lsts, el) ==
    LET tb == tabs[el.tab]
        cols == Columns(tb)
    IN  Collect([i \in 1..Len(cols) |-> RowGet(tb, lsts[el.ref], cols[i])])

\* list(cells) in Row.__init__: the cells a new Row over element el gets
CellsOf(tabs, lsts, el) ==
    IF el.kind = "list" THEN Ok(lsts[el.ref]) ELSE RowValues(tabs, lsts, el)

\* the cells of every row of table t as TableFu.rows shows them
Rows(tabs, lsts, t) ==
    [i \in 1..Len(tabs[t].table) |-> CellsOf(tabs, lsts, tabs[t].table[i])]

(* -------------------------------- sort -------------------------------- *)

\* row[index] on an element of TableFu.table, as the sort key and transform
\* read it: a Row object takes the integer for a column name
ElemAt(lsts, el, index) ==
    IF el.kind = "Row" THEN Raise("KeyError")
    ELSE IF index <= Len(lsts[el.ref]) THEN Ok(lsts[el.ref][index])
    ELSE Raise("IndexError")

\* the comparison list.sort makes on two keys
KeyLess(a, b) == StrLt(a, b)

Before(ka, kb, reverse) == IF reverse THEN KeyLess(kb, ka) ELSE KeyLess(ka, kb)

\* Insert gone wrong: p goes in front of the pairs with an equal key
InsertUnstable(s, p, reverse) ==
    LET idx == IF \E i \in 1..Len(s) : ~Before(s[i][1], p[1], reverse)
               THEN CHOOSE i \in 1..Len(s) :
                      /\ ~Before(s[i][1], p[1], reverse)
                      /\ \A j \in 1..(i - 1) : Before(s[j][1], p[1], reverse)
               ELSE Len(s) + 1
    IN  SubSeq(s, 1, idx - 1) \o <<p>> \o SubSeq(s, idx, Len(s))
\* one step of a stable sort: p goes behind every pair that does not come after it
Insert(s, p, reverse) ==
    LET idx == IF \E i \in 1..Len(s) : Before(p[1], s[i][1], reverse)
               THEN CHOOSE i \in 1..Len(s) :
                      /\ Before(p[1], s[i][1], reverse)
                      /\ \A j \in 1..(i - 1) : ~Before(p[1], s[j][1], reverse)
               ELSE Len(s) + 1
    IN  SubSeq(s, 1, idx - 1) \o <<p>> \o SubSeq(s, idx, Len(s))

\* list.sort(key, reverse) on <<key, element>> pairs: stable in both directions
RECURSIVE StableSort(_, _)
StableSort(ps, reverse) ==
    IF ps = <<>> THEN <<>>
    ELSE Insert(StableSort(SubSeq(ps, 1, Len(ps) - 1), reverse), ps[Len(ps)], reverse)

\* TableFu.sort on the fields of one table: val is <<table, options>> afterwards
SortTable(tb, o, lsts, column_name, reverse) ==
    LET col == IF column_name = E /\ o.sorted_by # <<>> THEN o.sorted_by[1].col
               ELSE column_name
    IN  IF ~In(col, tb.default_columns) THEN Raise("ValueError")
        ELSE LET index == Index(tb.default_columns, col)
                 keys == Collect([i \in 1..Len(tb.table) |-> ElemAt(lsts, tb.table[i], index)])
             IN  IF ~keys.ok THEN Raise(keys.err)
                 ELSE LET ps == [i \in 1..Len(tb.table) |-> <<keys.val[i], tb.table[i]>>]
                          sorted == StableSort(ps, reverse)
                      IN  Ok(<<[tb EXCEPT !.table = [i \in 1..Len(sorted) |-> sorted[i][2]]],
                               [o EXCEPT !.sorted_by = <<[col |-> col, reverse |-> reverse]>>]>>)

(* ----------------------------- construction --------------------------- *)

NoOptions == [columns |-> <<>>, sorted_by |-> <<>>, formatting |-> "none", style |-> "none"]

\* TableFu.__init__(table, **options), after table.pop(0) gave default_columns:
\* elems is the remaining table, o the new options dict, oid its id.
\* val is <<table object, options>>
Construct(elems, default_columns, o, oid, lsts) ==
    LET tb == [table |-> elems,
               default_columns |-> default_columns,
               _columns |-> IF o.columns = <<>> THEN <<>> ELSE o.columns[1],
               deleted_rows |-> <<>>,
               faceted_on |-> <<>>,
               formatting |-> IF o.formatting = "none" THEN "{}" ELSE o.formatting,
               style |-> IF o.style = "none" THEN "{}" ELSE o.style,
               options |-> oid]
    IN  IF o.sorted_by = <<>> THEN Ok(<<tb, o>>)
        ELSE SortTable(tb, o, lsts, o.sorted_by[1].col, o.sorted_by[1].reverse)

\* the option bags the first table is constructed with
OptionBags ==
    { [columns |-> c, sorted_by |-> s, formatting |-> f[1], style |-> f[2]] :
        c \in {<<>>, <<<<ColB>>>>},
        s \in {<<>>, <<[col |-> ColB, reverse |-> FALSE]>>},
        f \in {<<"none", "none">>, <<"fmt", "sty">>} }

\* the bodies given to the constructor: up to MaxRows rows, as wide as the header
Bodies(hdr) ==
    UNION { [1..n -> [1..Len(hdr) -> Vals]] : n \in 0..MaxRows }

NoCall == [op |-> "init", t |-> 0, col |-> E, reverse |-> FALSE, arg |-> <<>>,
           ok |-> TRUE, err |-> "", res |-> <<>>]

Call(op, t, col, reverse, arg, ok, err, res) ==
    [op |-> op, t |-> t, col |-> col, reverse |-> reverse, arg |-> arg,
     ok |-> ok, err |-> err, res |-> res]

\* the state after TableFu(table, **o) returned, for the option bags given
InitFrom(bags) ==
    \E hdr \in Headers, o \in bags :
      \E body \in Bodies(hdr) :
        LET c == Construct([i \in 1..Len(body) |-> ListEl(i)], hdr, o, 1, body)
        IN  /\ c.ok
            /\ tables = <<c.val[1]>>
            /\ opts = <<c.val[2]>>
            /\ lists = body
            /\ row = <<>>
            /\ calls = <<>>

Init == InitFrom(OptionBags)

Tids == 1..Len(tables)

\* what every call does besides its own effect: it is appended to the log of calls
Done(c) == calls' = Append(calls, c)

(* -------------------------- in-place operations ----------------------- *)

\* TableFu.sort(column_name, reverse)
sort(t, column_name, reverse) ==
    /\ LET r == SortTable(tables[t], opts[tables[t].options], lists, column_name, reverse)
       IN  /\ tables' = IF r.ok THEN [tables EXCEPT ![t] = r.val[1]] ELSE tables
           /\ opts' = IF r.ok THEN [opts EXCEPT ![tables[t].options] = r.val[2]] ELSE opts
           /\ Done(Call("sort", t, column_name, reverse, <<>>, r.ok, r.err, <<>>))
    /\ UNCHANGED <<lists, row>>

\* what transform is called with as func: a callable, and something else
Funcs == {"nine", "notcallable"}
\* func(val) for the callable "nine", lambda v: "9"
Apply(func, val) == S9

\* the loop of TableFu.transform from element i on: each row is read and written
\* in turn, and the first failing read ends the loop with the earlier rows written
RECURSIVE TransformFrom(_, _, _, _, _)
TransformFrom(lsts, elems, index, func, i) ==
    IF i > Len(elems) THEN [ok |-> TRUE, err |-> "", val |-> lsts]
    ELSE LET r == ElemAt(lsts, elems[i], index)
         IN  IF ~r.ok THEN [ok |-> FALSE, err |-> r.err, val |-> lsts]
             ELSE TransformFrom([lsts EXCEPT ![elems[i].ref][index] = Apply(func, r.val)],
                                elems, index, func, i + 1)

\* TableFu.transform on the heap of lists; val is the heap afterwards
TransformLists(tb, lsts, column_name, func) ==
    IF ~In(column_name, tb.default_columns) THEN [ok |-> FALSE, err |-> "ValueError", val |-> lsts]
    ELSE IF func = "notcallable" THEN [ok |-> FALSE, err |-> "TypeError", val |-> lsts]
    ELSE TransformFrom(lsts, tb.table, Index(tb.default_columns, column_name), func, 1)

\* TableFu.transform(column_name, func)
transform(t, column_name, func) ==
    /\ LET r == TransformLists(tables[t], lists, column_name, func)
       IN  /\ lists' = r.val
           /\ Done(Call("transform", t, column_name, FALSE, <<func>>, r.ok, r.err, <<>>))
    /\ UNCHANGED <<tables, opts, row>>

\* the rows add_rows is called with, for a table w columns wide
AddedRows(w) == { [i \in 1..w |-> S10], [i \in 1..w |-> IF i = 1 THEN S9 ELSE E] }

\* TableFu.add_rows(*rows): the caller's list objects are appended as they are
AddRowsTable(tb, lsts, rs) ==
    <<[tb EXCEPT !.table = tb.table \o [i \in 1..Len(rs) |-> ListEl(Len(lsts) + i)]],
      lsts \o rs>>

\* TableFu.add_rows(*rows)
add_rows(t, rs) ==
    /\ LET r == AddRowsTable(tables[t], lists, rs)
       IN  /\ tables' = [tables EXCEPT ![t] = r[1]]
           /\ lists' = r[2]
    /\ Done(Call("add_rows", t, E, FALSE, rs, TRUE, "", <<>>))
    /\ UNCHANGED <<opts, row>>

\* self.table.rows in delete_row: self.table is a list, and a list has no rows
TableRowsAttr(tb) == Raise("AttributeError")

\* TableFu.delete_row on one table
DeleteRowTable(tb, row_num) ==
    LET target == TableRowsAttr(tb)
    IN  IF ~target.ok THEN Raise(target.err)
        ELSE IF row_num > Len(target.val) THEN Raise("IndexError")
        ELSE Ok([tb EXCEPT
                   !.table = SubSeq(target.val, 1, row_num - 1)
                             \o SubSeq(target.val, row_num + 1, Len(target.val)),
                   !.deleted_rows = Append(tb.deleted_rows, target.val[row_num])])

\* TableFu.delete_row(row_num); positions are counted from 1 here
delete_row(t, row_num) ==
    /\ LET r == DeleteRowTable(tables[t], row_num)
       IN  /\ tables' = IF r.ok THEN [tables EXCEPT ![t] = r.val] ELSE tables
           /\ Done(Call("delete_row", t, E, FALSE, <<row_num>>, r.ok, r.err, <<>>))
    /\ UNCHANGED <<lists, opts, row>>

\* TableFu._set_columns
SetColumns(tb, o, columns) ==
    <<[tb EXCEPT !._columns = columns], [o EXCEPT !.columns = <<columns>>]>>

\* table.columns = columns
set_columns(t, columns) ==
    /\ LET r == SetColumns(tables[t], opts[tables[t].options], columns)
       IN  /\ tables' = [tables EXCEPT ![t] = r[1]]
           /\ opts' = [opts EXCEPT ![tables[t].options] = r[2]]
    /\ Done(Call("set_columns", t, E, FALSE, columns, TRUE, "", <<>>))
    /\ UNCHANGED <<lists, row>>

(* ----------------------------- read operations ------------------------ *)

\* TableFu.values(column_name)
Values(tb, lsts, column_name) ==
    IF ~In(column_name, tb.default_columns) THEN Raise("ValueError")
    ELSE Collect([i \in 1..Len(tb.table) |->
                    ElemAt(lsts, tb.table[i], Index(tb.default_columns, column_name))])

\* float(v) succeeds on a non-empty string of digits
IsFloat(v) == v # <<>>

RECURSIVE Sum(_)
Sum(s) == IF s = <<>> THEN 0 ELSE StrNum(s[1]) + Sum(Tail(s))

\* TableFu.total(column_name)
Total(tb, lsts, column_name) ==
    IF ~In(column_name, tb.default_columns) THEN Raise("ValueError")
    ELSE LET vs == Values(tb, lsts, column_name)
         IN  IF ~vs.ok THEN Raise(vs.err)
             ELSE IF \E i \in 1..Len(vs.val) : ~IsFloat(vs.val[i]) THEN Raise("ValueError")
             ELSE Ok(Sum(vs.val))

\* TableFu.values(column_name)
values(t, column_name) ==
    /\ LET r == Values(tables[t], lists, column_name)
       IN  Done(Call("values", t, column_name, FALSE, <<r.val>>, r.ok, r.err, <<>>))
    /\ UNCHANGED <<tables, lists, opts, row>>

\* TableFu.total(column_name)
total(t, column_name) ==
    /\ LET r == Total(tables[t], lists, column_name)
       IN  Done(Call("total", t, column_name, FALSE, <<r.val>>, r.ok, r.err, <<>>))
    /\ UNCHANGED <<tables, lists, opts, row>>

(* --------------------------- derived tables --------------------------- *)

\* the objects a call can reach and change
Heap == [tables |-> tables, lists |-> lists, opts |-> opts]

Fail(e, st) == [ok |-> FALSE, err |-> e, st |-> st, res |-> <<>>]

\* the functions filter is called with: lambda r: True, and the lambda of the
\* keyword mode, lambda r: r[column] == value (Datum.__eq__ compares the value)
EqPred(column, value) == [kind |-> "eq", col |-> column, val |-> value]
Preds == {[kind |-> "all", col |-> E, val |-> E], EqPred(ColA, S9), EqPred(ColB, E)}

\* func(row) on a Row of table tb with these cells
Test(tb, cells, func) ==
    IF func.kind = "all" THEN Ok(TRUE)
    ELSE LET d == RowGet(tb, cells, func.col)
         IN  IF d.ok THEN Ok(d.val = func.val) ELSE Raise(d.err)

\* RowInit gone wrong: self.cells = cells, the list of the table itself
RowInitAlias(lsts, el, cells) ==
    IF el.kind = "list" THEN <<lsts, el.ref>> ELSE <<Append(lsts, cells), Len(lsts) + 1>>
\* Row.__init__ over element el: self.cells = list(cells), a new list object;
\* <<heap, its id>>
RowInit(lsts, el, cells) == <<Append(lsts, cells), Len(lsts) + 1>>

\* filter(func, self): every element is wrapped in a new Row (TableFu.rows), func
\* is called on it and the Row objects it accepts are kept, in order.
\* val is <<heap of lists, kept elements>>
RECURSIVE FilterFrom(_, _, _, _, _, _)
FilterFrom(tabs, lsts, t, func, i, kept) ==
    IF i > Len(tabs[t].table) THEN Ok(<<lsts, kept>>)
    ELSE LET cells == CellsOf(tabs, lsts, tabs[t].table[i])
         IN  IF ~cells.ok THEN Raise(cells.err)
             ELSE LET keep == Test(tabs[t], cells.val, func)
                      r == RowInit(lsts, tabs[t].table[i], cells.val)
                  IN  IF ~keep.ok THEN Raise(keep.err)
                      ELSE IF keep.val
                           THEN FilterFrom(tabs, r[1], t, func, i + 1, Append(kept, RowEl(r[2], t)))
                           ELSE FilterFrom(tabs, lsts, t, func, i + 1, kept)

\* TableFu.filter(func) with a callable: TableFu([default_columns] + kept, **options)
FilterFunc(st, t, func) ==
    LET f == FilterFrom(st.tables, st.lists, t, func, 1, <<>>)
    IN  IF ~f.ok THEN Fail(f.err, st)
        ELSE LET oid == Len(st.opts) + 1
                 c == Construct(f.val[2], st.tables[t].default_columns,
                                st.opts[st.tables[t].options], oid, f.val[1])
             IN  IF ~c.ok THEN Fail(c.err, st)
                 ELSE [ok |-> TRUE, err |-> "",
                       st |-> [tables |-> Append(st.tables, c.val[1]),
                               lists |-> f.val[1],
                               opts |-> Append(st.opts, c.val[2])],
                       res |-> <<Len(st.tables) + 1>>]

\* TableFu.filter(**query): result = self, then one filter(func) per item
RECURSIVE FilterQuery(_, _, _, _)
FilterQuery(st, t, query, i) ==
    IF i > Len(query) THEN [ok |-> TRUE, err |-> "", st |-> st, res |-> <<t>>]
    ELSE LET f == FilterFunc(st, t, EqPred(query[i].col, query[i].val))
         IN  IF ~f.ok THEN f ELSE FilterQuery(f.st, f.res[1], query, i + 1)

\* the keyword arguments filter is called with, in the order of query.items()
Queries ==
    { <<>>, <<[col |-> ColA, val |-> S9]>>, <<[col |-> Nope, val |-> S9]>>,
      <<[col |-> ColA, val |-> S9], [col |-> ColB, val |-> E]>> }

\* what a call that builds tables leaves: the heap it built on success, the heap
\* as it was on an exception (what it built is unreachable)
Built(op, t, col, arg, r) ==
    /\ tables' = IF r.ok THEN r.st.tables ELSE tables
    /\ lists' = IF r.ok THEN r.st.lists ELSE lists
    /\ opts' = IF r.ok THEN r.st.opts ELSE opts
    /\ Done(Call(op, t, col, FALSE, arg, r.ok, r.err, r.res))
    /\ UNCHANGED row

\* TableFu.filter(func)
filter(t, func) ==
    /\ Built("filter", t, func.col, <<func>>, FilterFunc(Heap, t, func))

\* TableFu.filter(**query)
filter_query(t, query) ==
    /\ Built("filter_query", t, E, query, FilterQuery(Heap, t, query, 1))

\* bool(datum) in "if row[column]:": Datum defines neither __nonzero__ nor
\* __len__, so every Datum is true
DatumTruth(value) == TRUE

\* the loop of facet_by from element i on: groups maps a value to the cells
\* lists of its rows; val is <<heap of lists, groups>>, groups a sequence of
\* <<value, elements>> in order of first appearance
RECURSIVE FacetFrom(_, _, _, _, _, _)
FacetFrom(tabs, lsts, t, column, i, groups) ==
    IF i > Len(tabs[t].table) THEN Ok(<<lsts, groups>>)
    ELSE LET cells == CellsOf(tabs, lsts, tabs[t].table[i])
         IN  IF ~cells.ok THEN Raise(cells.err)
             ELSE LET d == RowGet(tabs[t], cells.val, column)
                      r == RowInit(lsts, tabs[t].table[i], cells.val)
                  IN  IF ~d.ok THEN Raise(d.err)
                      ELSE IF ~DatumTruth(d.val)
                           THEN FacetFrom(tabs, lsts, t, column, i + 1, groups)
                      ELSE IF \E g \in 1..Len(groups) : groups[g][1] = d.val
                           THEN LET g == CHOOSE g \in 1..Len(groups) : groups[g][1] = d.val
                                IN  FacetFrom(tabs, r[1], t, column, i + 1,
                                      [groups EXCEPT ![g][2] = Append(@, ListEl(r[2]))])
                           ELSE FacetFrom(tabs, r[1], t, column, i + 1,
                                      Append(groups, <<d.val, <<ListEl(r[2])>>>>))

\* the facet table of one group: TableFu(v), then faceted_on, formatting and
\* options are set from the group and the parent
FacetTable(parent, group) ==
    [Construct(group[2], parent.default_columns, NoOptions, parent.options, <<>>).val[1]
       EXCEPT !.faceted_on = <<group[1]>>,
              !.formatting = parent.formatting,
              !.options = parent.options]

\* TableFu.facet_by(column): the facet tables, sorted by faceted_on
FacetBy(st, t, column) ==
    LET f == FacetFrom(st.tables, st.lists, t, column, 1, <<>>)
    IN  IF ~f.ok THEN Fail(f.err, st)
        ELSE LET sorted == StableSort(f.val[2], FALSE)
                 new == [g \in 1..Len(sorted) |-> FacetTable(st.tables[t], sorted[g])]
             IN  [ok |-> TRUE, err |-> "",
                  st |-> [tables |-> st.tables \o new, lists |-> f.val[1], opts |-> st.opts],
                  res |-> [g \in 1..Len(sorted) |-> Len(st.tables) + g]]

\* TableFu.facet_by(column)
facet_by(t, column) ==
    /\ Built("facet_by", t, column, <<>>, FacetBy(Heap, t, column))

\* TransposeGrid gone wrong: the last column is left out
TransposeGridShort(grid) ==
    [i \in 1..(Len(grid[1]) - 1) |-> [j \in 1..Len(grid) |-> grid[j][i]]]
\* [[row[i] for row in table] for i in xrange(len(table[0]))]
TransposeGrid(grid) ==
    [i \in 1..Len(grid[1]) |-> [j \in 1..Len(grid) |-> grid[j][i]]]

\* the options transpose passes on: the copy without 'columns' is made and
\* dropped, and TableFu(result, **self.options) gets the table's own options
TransposeOptions(o) == o

\* TableFu.transpose()
Transpose(st, t) ==
    LET tb == st.tables[t]
        width == Len(tb.default_columns)
        body == Collect([i \in 1..Len(tb.table) |->
                  Collect([j \in 1..width |-> ElemAt(st.lists, tb.table[i], j)])])
        result == TransposeGrid(<<tb.default_columns>> \o body.val)
    IN  IF ~body.ok THEN Fail(body.err, st)
        ELSE IF result = <<>> THEN Fail("IndexError", st)
        ELSE LET n == Len(st.lists)
                 lsts == st.lists \o Tail(result)
                 c == Construct([i \in 1..(Len(result) - 1) |-> ListEl(n + i)], result[1],
                                TransposeOptions(st.opts[tb.options]), Len(st.opts) + 1, lsts)
             IN  IF ~c.ok THEN Fail(c.err, st)
                 ELSE [ok |-> TRUE, err |-> "",
                       st |-> [tables |-> Append(st.tables, c.val[1]),
                               lists |-> lsts,
                               opts |-> Append(st.opts, c.val[2])],
                       res |-> <<Len(st.tables) + 1>>]

\* TableFu.transpose()
transpose(t) ==
    /\ Built("transpose", t, E, <<>>, Transpose(Heap, t))

(* --------------------------------- rows ------------------------------- *)

\* TableFu.__getitem__(row_num): Row(self.table[row_num], row_num, self);
\* positions are counted from 1 here. val is <<heap of lists, Row>>
GetItem(tabs, lsts, t, row_num) ==
    IF row_num > Len(tabs[t].table) THEN Raise("IndexError")
    ELSE LET cells == CellsOf(tabs, lsts, tabs[t].table[row_num])
         IN  IF ~cells.ok THEN Raise(cells.err)
             ELSE LET r == RowInit(lsts, tabs[t].table[row_num], cells.val)
                  IN  Ok(<<r[1], [cells |-> r[2], row_num |-> row_num, table |-> t]>>)

\* row = table[row_num]
getitem(t, row_num) ==
    /\ LET r == GetItem(tables, lists, t, row_num)
       IN  /\ lists' = IF r.ok THEN r.val[1] ELSE lists
           /\ row' = IF r.ok THEN <<r.val[2]>> ELSE row
           /\ Done(Call("getitem", t, E, FALSE, <<row_num>>, r.ok, r.err, <<>>))
    /\ UNCHANGED <<tables, opts>>

\* Row.__setitem__(column_name, value); val is the heap of lists afterwards
SetItem(tabs, lsts, r, column_name, value) ==
    IF ~In(column_name, tabs[r.table].default_columns)
    THEN [ok |-> FALSE, err |-> "KeyError", val |-> lsts]
    ELSE LET index == Index(tabs[r.table].default_columns, column_name)
         IN  IF index > Len(lsts[r.cells])
             THEN [ok |-> FALSE, err |-> "IndexError", val |-> lsts]
             ELSE [ok |-> TRUE, err |-> "", val |-> [lsts EXCEPT ![r.cells][index] = value]]

\* Row.update(d): one __setitem__ per item, until one raises
RECURSIVE Update(_, _, _, _, _)
Update(tabs, lsts, r, d, i) ==
    IF i > Len(d) THEN [ok |-> TRUE, err |-> "", val |-> lsts]
    ELSE LET s == SetItem(tabs, lsts, r, d[i].col, d[i].val)
         IN  IF ~s.ok THEN s ELSE Update(tabs, s.val, r, d, i + 1)

\* row[column_name] = value
row_setitem(column_name, value) ==
    /\ row # <<>>
    /\ LET s == SetItem(tables, lists, row[1], column_name, value)
       IN  /\ lists' = s.val
           /\ Done(Call("row_setitem", row[1].table, column_name, FALSE, <<value>>,
                        s.ok, s.err, <<>>))
    /\ UNCHANGED <<tables, opts, row>>

\* the dictionaries Row.update is called with, in the order of d.items()
Updates ==
    { <<[col |-> ColA, val |-> S10], [col |-> ColB, val |-> S9]>>,
      <<[col |-> ColB, val |-> E]>> }

\* row.update(d)
row_update(d) ==
    /\ row # <<>>
    /\ LET s == Update(tables, lists, row[1], d, 1)
       IN  /\ lists' = s.val
           /\ Done(Call("row_update", row[1].table, E, FALSE, d, s.ok, s.err, <<>>))
    /\ UNCHANGED <<tables, opts, row>>

\* row[column_name]
row_getitem(column_name) ==
    /\ row # <<>>
    /\ LET d == RowGet(tables[row[1].table], lists[row[1].cells], column_name)
       IN  Done(Call("row_getitem", row[1].table, column_name, FALSE, <<d.val>>,
                     d.ok, d.err, <<>>))
    /\ UNCHANGED <<tables, lists, opts, row>>

(* ---------------------------- specification --------------------------- *)

\* fewer than n calls were made
Within(n) == Len(calls) < n

\* every call on every object, at most MaxOps of them
Next ==
    \/ \E t \in Tids, c \in Names \cup {E}, rev \in BOOLEAN : Within(MaxOps) /\ sort(t, c, rev)
    \/ \E t \in Tids, c \in Names, f \in Funcs : Within(MaxOps) /\ transform(t, c, f)
    \/ \E t \in Tids : \E r \in AddedRows(Len(tables[t].default_columns)) :
          Within(MaxOps) /\ add_rows(t, <<r>>)
    \/ \E t \in Tids, n \in 1..MaxRows : Within(MaxOps) /\ delete_row(t, n)
    \/ \E t \in Tids, cs \in {<<ColB>>, <<ColB, ColA>>} : Within(MaxOps) /\ set_columns(t, cs)
    \/ \E t \in Tids, c \in Names : Within(MaxOps) /\ values(t, c)
    \/ \E t \in Tids, c \in Names : Within(MaxOps) /\ total(t, c)
    \/ \E t \in Tids, f \in Preds : Within(MaxOps) /\ filter(t, f)
    \/ \E t \in Tids, q \in Queries : Within(MaxOps) /\ filter_query(t, q)
    \/ \E t \in Tids, c \in Names : Within(MaxOps) /\ facet_by(t, c)
    \/ \E t \in Tids : Within(MaxOps) /\ transpose(t)
    \/ \E t \in Tids, n \in 1..MaxRows : Within(MaxOps) /\ getitem(t, n)
    \/ \E c \in Names : Within(MaxOps) /\ row_setitem(c, S10)
    \/ \E d \in Updates : Within(MaxOps) /\ row_update(d)
    \/ \E c \in Names : Within(MaxOps) /\ row_getitem(c)

Spec == Init /\ [][Next]_vars

\* the calls that change a table in place, on a table constructed with or
\* without sorted_by, and on a table that filter built
InitSort ==
    InitFrom({NoOptions, [NoOptions EXCEPT !.sorted_by = <<[col |-> ColB, reverse |-> TRUE]>>]})

NextSort ==
    \/ \E t \in Tids, c \in {ColA, ColB, E}, rev \in BOOLEAN : Within(MaxOps) /\ sort(t, c, rev)
    \/ \E t \in Tids : Within(MaxOps) /\ filter(t, EqPred(ColA, S9))
    \/ \E t \in Tids : Within(MaxOps) /\ transform(t, ColA, "nine")
    \/ \E t \in Tids : \E r \in AddedRows(Len(tables[t].default_columns)) :
          Within(MaxOps) /\ add_rows(t, <<r>>)

SpecSort == InitSort /\ [][NextSort]_vars

\* transpose among the calls that change a table in place, on a table
\* constructed with or without sorted_by
InitTranspose ==
    InitFrom({NoOptions, [NoOptions EXCEPT !.sorted_by = <<[col |-> ColA, reverse |-> FALSE]>>]})

NextTranspose ==
    \/ \E t \in Tids : Within(MaxOps) /\ transpose(t)
    \/ \E t \in Tids, c \in {ColA, ColB}, rev \in BOOLEAN : Within(MaxOps) /\ sort(t, c, rev)
    \/ \E t \in Tids : \E r \in AddedRows(Len(tables[t].default_columns)) :
          Within(MaxOps) /\ add_rows(t, <<r>>)

SpecTranspose == InitTranspose /\ [][NextTranspose]_vars

\* reading a Row from a table (one that filter built, too, and one with active
\* columns set) and writing to it
InitRow == InitFrom({NoOptions, [NoOptions EXCEPT !.columns = <<<<ColB>>>>]})

NextRow ==
    \/ \E t \in Tids : \E n \in 1..Len(tables[t].table) : Within(MaxRowOps) /\ getitem(t, n)
    \/ \E t \in Tids : Within(MaxRowOps) /\ filter(t, EqPred(ColA, S9))
    \/ \E c \in {ColB, Nope} : Within(MaxRowOps) /\ row_setitem(c, S10)
    \/ \E d \in Updates : Within(MaxRowOps) /\ row_update(d)

SpecRow == InitRow /\ [][NextRow]_vars

(* ------------------------- what the claims speak of -------------------- *)

\* the call made last, and the one before it
last == IF calls = <<>> THEN NoCall ELSE calls[Len(calls)]
prev == IF Len(calls) < 2 THEN NoCall ELSE calls[Len(calls) - 1]

\* every row of table t can be read
RowsOk(t) == \A i \in 1..Len(tables[t].table) : Rows(tables, lists, t)[i].ok
\* the cells of the rows of table t, in order
RowCells(t) == [i \in 1..Len(tables[t].table) |-> Rows(tables, lists, t)[i].val]
\* the header and the rows of table t
Grid(t) == <<tables[t].default_columns>> \o RowCells(t)
\* table t holds raw lists, each as wide as the header
Rectangular(t) ==
    \A i \in 1..Len(tables[t].table) :
       /\ tables[t].table[i].kind = "list"
       /\ Len(lists[tables[t].table[i].ref]) = Len(tables[t].default_columns)
\* a row with these cells satisfies func, a predicate on a column of table tb
PredHolds(tb, cells, func) ==
    func.kind = "all" \/ cells[Index(tb.default_columns, func.col)] = func.val

\* C1: filter(pred) on a table reached from construction (here: without a
\* columns override) by sort, transform and add_rows calls returns a new table whose rows are exactly the rows of the
\* input that satisfy pred, in the input's order.
C1_FilterKeepsMatchingRows ==
    ( /\ last.op = "filter"
      /\ last.t = 1
      /\ tables[1]._columns = <<>>
      /\ \A i \in 1..(Len(calls) - 1) : calls[i].op \in {"sort", "transform", "add_rows"} )
    => /\ last.ok
       /\ last.res[1] # last.t
       /\ RowsOk(last.res[1])
       /\ RowCells(last.res[1])
            = SelectSeq(RowCells(last.t),
                        LAMBDA r : PredHolds(tables[last.t], r, last.arg[1]))

\* C2: facet_by(column) partitions the rows with a non-empty value: no facet
\* table is faceted on "", every non-empty value has its facet table, a facet
\* table holds exactly the rows with its value in their original order, and the
\* facet tables come in ascending order of faceted_on.
C2_FacetPartition ==
    (last.op = "facet_by" /\ last.ok)
    => LET tb == tables[last.t]
           c == Index(tb.default_columns, last.col)
           R == RowCells(last.t)
           F == last.res
       IN  /\ \A g \in 1..Len(F) : tables[F[g]].faceted_on # <<E>>
           /\ \A i \in 1..Len(R) :
                R[i][c] # E => \E g \in 1..Len(F) : tables[F[g]].faceted_on = <<R[i][c]>>
           /\ \A g \in 1..Len(F) :
                RowCells(F[g])
                  = SelectSeq(R, LAMBDA r : <<r[c]>> = tables[F[g]].faceted_on)
           /\ \A g, h \in 1..Len(F) :
                g < h => StrLt(tables[F[g]].faceted_on[1], tables[F[h]].faceted_on[1])

\* C3: transpose is an involution on rectangular tables, sorted ones included:
\* transpose() returns, and the transpose of the transpose has the header and
\* the rows of the table, in order.
C3_TransposeInvolution ==
    /\ (last.op = "transpose" /\ Rectangular(last.t)) => last.ok
    /\ ( /\ last.op = "transpose" /\ prev.op = "transpose" /\ prev.ok
         /\ Rectangular(prev.t) /\ last.t = prev.res[1] )
       => (last.ok /\ Grid(last.res[1]) = Grid(prev.t))

\* call c names a (non-empty) column that is not in default_columns
UnknownColumn(c) ==
    \/ /\ c.op \in {"sort", "transform", "values", "total", "row_getitem", "row_setitem"}
       /\ c.col # E
       /\ ~In(c.col, tables[c.t].default_columns)
    \/ /\ c.op = "filter_query"
       /\ \E i \in 1..Len(c.arg) : ~In(c.arg[i].col, tables[c.t].default_columns)

\* C5: a call of sort, filter(**query), transform, values, total, row[name] or
\* row[name] = v with a column name not in default_columns ends in an error and
\* leaves the tables as they were, on every table (one without rows too); so
\* does transform with a non-callable.
C5_UnknownColumnFails ==
    [][ (UnknownColumn(last') \/ (last'.op = "transform" /\ last'.arg = <<"notcallable">>))
        => (~last'.ok /\ tables' = tables /\ lists' = lists /\ opts' = opts) ]_vars

\* C6: a table returned by filter (either mode, any query), facet_by or
\* transpose is a new object, and a later sort, transform or add_rows on one
\* table leaves the rows of every other table as they were.
C6_CopyOnDerive ==
    [][ /\ (last'.op \in {"filter", "filter_query", "facet_by", "transpose"} /\ last'.ok)
           => \A g \in 1..Len(last'.res) : last'.res[g] \notin DOMAIN tables
        /\ last'.op \in {"sort", "transform", "add_rows"}
           => \A u \in DOMAIN tables \ {last'.t} :
                 Rows(tables', lists', u) = Rows(tables, lists, u) ]_vars

\* C8: the table transpose() returns of a table with active columns set has no
\* active-column override (its columns are its default_columns), and the
\* formatting and style of the table.
C8_TransposeDropsColumns ==
    (last.op = "transpose" /\ last.ok /\ tables[last.t]._columns # <<>>)
    => LET d == tables[last.res[1]]
       IN  /\ d._columns = <<>>
           /\ Columns(d) = d.default_columns
           /\ d.formatting = tables[last.t].formatting
           /\ d.style = tables[last.t].style

\* C9: delete_row(n) on a position the table has removes that row from the
\* table's rows and appends it to deleted_rows.
C9_DeleteRowAudited ==
    [][ (last'.op = "delete_row" /\ last'.arg[1] <= Len(tables[last'.t].table))
        => LET t == last'.t
               n == last'.arg[1]
           IN  /\ last'.ok
               /\ tables'[t].table = SubSeq(tables[t].table, 1, n - 1)
                                     \o SubSeq(tables[t].table, n + 1, Len(tables[t].table))
               /\ tables'[t].deleted_rows = Append(tables[t].deleted_rows, tables[t].table[n]) ]_vars

\* the sort key of element e of table t: its raw cell in the column named col
KeyOf(t, e, col) == lists[e.ref][Index(tables[t].default_columns, col)]
\* the position of element e in the sequence es
PosIn(es, e) == CHOOSE i \in 1..Len(es) : es[i] = e
Reversed(es) == [i \in 1..Len(es) |-> es[Len(es) + 1 - i]]
\* the call c sorted the table of call d again, by the same column and direction
SameSort(c, d) ==
    c.op = "sort" /\ d.op = "sort" /\ c.t = d.t /\ c.col = d.col /\ c.reverse = d.reverse

\* C4: sort(column, reverse) orders the rows by the raw strings of the column
\* (ascending, or descending with reverse), keeps rows with equal keys in their
\* previous relative order, leaves the order as it is when called a second time
\* with the same arguments, and, on a column of distinct values, reverse=True
\* after reverse=False gives exactly the reversed order.
C4_SortStableIdempotent ==
    [][ last'.op = "sort" =>
        LET t == last'.t
            old == tables[t].table
            new == tables'[t].table
            col == opts'[tables[t].options].sorted_by[1].col
        IN  /\ last'.ok =>
                 /\ Len(new) = Len(old)
                 /\ \A i \in 1..Len(old) : \E j \in 1..Len(new) : new[j] = old[i]
                 /\ \A i, j \in 1..Len(new) :
                      i < j => IF last'.reverse
                               THEN ~StrLt(KeyOf(t, new[i], col), KeyOf(t, new[j], col))
                               ELSE ~StrLt(KeyOf(t, new[j], col), KeyOf(t, new[i], col))
                 /\ \A i, j \in 1..Len(old) :
                      (i < j /\ KeyOf(t, old[i], col) = KeyOf(t, old[j], col))
                      => PosIn(new, old[i]) < PosIn(new, old[j])
            /\ SameSort(last', last) => (last'.ok = last.ok /\ new = old)
            /\ ( /\ last.op = "sort" /\ last.ok /\ last'.ok /\ last.t = t
                 /\ last.col = last'.col /\ ~last.reverse /\ last'.reverse
                 /\ \A i, j \in 1..Len(old) :
                      i # j => KeyOf(t, old[i], col) # KeyOf(t, old[j], col) )
               => new = Reversed(old) ]_vars

\* C4's case: a table of two rows that differ, with equal keys in the sorted
\* column, sorted twice in opposite directions
C4_Witness ==
    /\ last.op = "sort" /\ last.ok /\ prev.op = "sort" /\ prev.ok
    /\ last.reverse /\ ~prev.reverse /\ last.col = ColB /\ prev.col = ColB
    /\ Len(tables[1].table) = 2
    /\ lists[tables[1].table[1].ref][2] = lists[tables[1].table[2].ref][2]
    /\ lists[tables[1].table[1].ref][1] = S10
    /\ lists[tables[1].table[2].ref][1] = S9

\* C7 as stated: the transpose of a table with R rows and C columns has R + 1
\* columns and C rows.
C7_TransposeShape ==
    (last.op = "transpose" /\ last.ok /\ Rectangular(last.t))
    => /\ Len(tables[last.res[1]].default_columns) = Len(tables[last.t].table) + 1
       /\ Len(tables[last.res[1]].table) = Len(tables[last.t].default_columns)

\* C7, amended: whenever transpose() of a rectangular table with R rows and C
\* columns returns, the table it returns has R + 1 columns and C - 1 rows, each
\* R + 1 cells wide: the first column of the table became the header.
C7_TransposeShapeAmended ==
    (last.op = "transpose" /\ last.ok /\ Rectangular(last.t))
    => /\ Len(tables[last.res[1]].default_columns) = Len(tables[last.t].table) + 1
       /\ Len(tables[last.res[1]].table) + 1 = Len(tables[last.t].default_columns)
       /\ Rectangular(last.res[1])

\* C7's case: a table of two columns and two rows, sorted, was transposed
C7_Witness ==
    /\ last.op = "transpose" /\ last.ok /\ Rectangular(last.t)
    /\ prev.op = "sort" /\ prev.ok /\ last.t = 1
    /\ Len(tables[1].table) = 2 /\ Len(tables[1].default_columns) = 2

\* C10: a write to a Row (row[name] = v, row.update) changes no table and no
\* list that a table holds, so every table shows the rows it showed before; and
\* table[i] gives a Row with the cells the table shows at i.
C10_RowWritesStayInRow ==
    [][ /\ last'.op \in {"row_setitem", "row_update"} =>
             /\ tables' = tables
             /\ \A t \in DOMAIN tables :
                  /\ \A i \in 1..Len(tables[t].table) :
                       lists'[tables[t].table[i].ref] = lists[tables[t].table[i].ref]
                  /\ Rows(tables', lists', t) = Rows(tables, lists, t)
        /\ (last'.op = "getitem" /\ last'.ok) =>
             /\ lists'[row'[1].cells] = Rows(tables, lists, last'.t)[last'.arg[1]].val
             /\ Rows(tables', lists', last'.t) = Rows(tables, lists, last'.t) ]_vars

\* C10's case: a Row read from a table that filter built was written to, and
\* differs from the row the table shows
C10_Witness ==
    /\ last.op = "row_setitem" /\ last.ok
    /\ row # <<>>
    /\ row[1].table = 2
    /\ tables[2].table[row[1].row_num].kind = "Row"
    /\ lists[row[1].cells] # RowCells(2)[row[1].row_num]
====
